---- MODULE Spec2Model ----
(***************************************************************************)
(* Email finder / verifier (app/finder.py, app/verifier.py).               *)
(*                                                                         *)
(* Python strings are sequences of one-character strings, so that strip,   *)
(* lower, split, the regular expressions and substring tests are computed  *)
(* the way the code computes them.  Latencies are whole milliseconds,      *)
(* Confidence and Score are carried in hundredths (0.35 is 35, 99 is       *)
(* 9900).  Python's None is the value None below.                          *)
(***************************************************************************)
EXTENDS Integers, Sequences, FiniteSets, TLC

VARIABLES
    fpc,        \* find_email: "idle", "loop", "await", "done"
    patterns,   \* find_email: generate_patterns(full_name, domain)
    fidx,       \* find_email: position of the for loop in patterns (1-based)
    calls,      \* find_email: the addresses verify_email was invoked on, in order
    outcomes,   \* find_email: what each of those invocations did
    fresp,      \* find_email: the HTTP outcome [code, found]
    store,      \* mx_cache._store: domain -> (ts, records), or no entry
    now,        \* time.time(), in seconds
    ticks,      \* how often the clock has advanced
    ncalls,     \* how many calls the sequential caller has made
    wk,         \* per thread: the verify_email / resolve_mx call it is running
    bpc,        \* verify_bulk_emails: "idle", "running", "done"
    bemails,    \* verify_bulk_emails: emails after the pre-filter (line 362)
    bmax,       \* verify_bulk_emails: max_workers
    bdone,      \* verify_bulk_emails: the futures as_completed has yielded
    bresults,   \* verify_bulk_emails: results, in the order of completion
    bout,       \* verify_bulk_emails: the returned list
    ucall       \* a direct call of one function: its name, arguments and value

fvars == <<fpc, patterns, fidx, calls, outcomes, fresp>>
cvars == <<store, now, ticks>>
vvars == <<store, now, ticks, ncalls, wk>>
bvars == <<bpc, bemails, bmax, bdone, bresults, bout>>
uvars == <<ucall>>
vars == <<fvars, vvars, bvars, uvars>>

(***************************************************************************)
(* Characters and Python string helpers                                    *)
(***************************************************************************)
None == -1

UpperSeq == <<"A","B","C","D","E","F","G","H","I","J","K","L","M",
              "N","O","P","Q","R","S","T","U","V","W","X","Y","Z">>
LowerSeq == <<"a","b","c","d","e","f","g","h","i","j","k","l","m",
              "n","o","p","q","r","s","t","u","v","w","x","y","z">>
DigitSeq == <<"0","1","2","3","4","5","6","7","8","9">>

Range(s) == {s[i] : i \in DOMAIN s}

Letters == Range(UpperSeq) \cup Range(LowerSeq)
Digits == Range(DigitSeq)
Whitespace == {" ", "\t", "\n"}

\* str.lower() on one character
LowerChar(c) ==
    IF c \in Range(UpperSeq)
    THEN LowerSeq[CHOOSE i \in DOMAIN UpperSeq : UpperSeq[i] = c]
    ELSE c

\* str.lower()
Lower(s) == [i \in DOMAIN s |-> LowerChar(s[i])]

\* re.sub(pattern matching every character outside keep, "", s)
RECURSIVE Keep(_, _)
Keep(s, keep) ==
    IF s = <<>> THEN <<>>
    ELSE (IF Head(s) \in keep THEN <<Head(s)>> ELSE <<>>) \o Keep(Tail(s), keep)

RECURSIVE LStrip(_)
LStrip(s) ==
    IF s /= <<>> /\ Head(s) \in Whitespace THEN LStrip(Tail(s)) ELSE s

RECURSIVE RStrip(_)
RStrip(s) ==
    IF s /= <<>> /\ s[Len(s)] \in Whitespace
    THEN RStrip(SubSeq(s, 1, Len(s) - 1)) ELSE s

\* str.strip()
Strip(s) == RStrip(LStrip(s))

\* str.rstrip('.')
RECURSIVE RStripDot(_)
RStripDot(s) ==
    IF s /= <<>> /\ s[Len(s)] = "."
    THEN RStripDot(SubSeq(s, 1, Len(s) - 1)) ELSE s

\* str.split(): the maximal runs of non-whitespace characters, in order
RECURSIVE SplitAcc(_, _, _)
SplitAcc(s, cur, acc) ==
    IF s = <<>> THEN (IF cur = <<>> THEN acc ELSE Append(acc, cur))
    ELSE IF Head(s) \in Whitespace
         THEN SplitAcc(Tail(s), <<>>, IF cur = <<>> THEN acc ELSE Append(acc, cur))
         ELSE SplitAcc(Tail(s), Append(cur, Head(s)), acc)

Split(s) == SplitAcc(s, <<>>, <<>>)

\* sub in s
Contains(s, sub) ==
    \E i \in 0..(Len(s) - Len(sub)) : SubSeq(s, i + 1, i + Len(sub)) = sub

(***************************************************************************)
(* finder.py: name and domain cleaning, pattern generation                 *)
(***************************************************************************)
\* NAME_CLEAN_RE = [^a-zA-Z\s]+ : the characters clean_name keeps
NAME_KEEP == Letters \cup Whitespace
\* DOMAIN_CLEAN_RE = [^a-z0-9.\-] : the characters clean_domain keeps
DOMAIN_KEEP == Range(LowerSeq) \cup Digits \cup {".", "-"}

clean_name(name) == Split(Lower(Strip(Keep(name, NAME_KEEP))))

\* clean_domain before its validity test
clean_domain_text(domain) ==
    LET d == Lower(Strip(domain))
        e == IF d /= <<>> /\ Head(d) = "@" THEN Tail(d) ELSE d
    IN Keep(e, DOMAIN_KEEP)

\* clean_domain raises HTTPException(400) exactly when this is FALSE
clean_domain_ok(domain) ==
    LET d == clean_domain_text(domain)
    IN ~(("." \notin Range(d)) \/ d = <<>>)

\* "De-duplicate while preserving order"
RECURSIVE DedupAcc(_, _)
DedupAcc(ps, ordered) ==
    IF ps = <<>> THEN ordered
    ELSE DedupAcc(Tail(ps),
                  IF Head(ps) \in Range(ordered) THEN ordered
                  ELSE Append(ordered, Head(ps)))

\* Dedup without the seen set of lines 79-83
DedupNone(ps) == ps

Dedup(ps) == DedupAcc(ps, <<>>)

At(local, domain) == local \o <<"@">> \o domain

generate_patterns(full_name, domain) ==
    LET parts == clean_name(full_name)
    IN IF parts = <<>> THEN <<>>
       ELSE LET first == parts[1]
                last  == IF Len(parts) > 1 THEN parts[Len(parts)] ELSE <<>>
                fi    == IF first /= <<>> THEN <<first[1]>> ELSE <<>>
                li    == IF last /= <<>> THEN <<last[1]>> ELSE <<>>
                raw   ==
                    <<At(first, domain)>>
                    \o (IF last /= <<>> THEN <<At(last, domain)>> ELSE <<>>)
                    \o (IF last /= <<>> /\ fi /= <<>>
                        THEN <<At(fi \o <<".">> \o last, domain)>> ELSE <<>>)
                    \o (IF last /= <<>>
                        THEN <<At(first \o <<".">> \o last, domain)>> ELSE <<>>)
                    \o (IF li /= <<>>
                        THEN <<At(first \o <<".">> \o li, domain)>> ELSE <<>>)
                    \o (IF last /= <<>> THEN <<At(first \o last, domain)>> ELSE <<>>)
                    \o (IF last /= <<>> THEN <<At(last \o first, domain)>> ELSE <<>>)
                    \o (IF fi /= <<>> /\ li /= <<>>
                        THEN <<At(fi \o li, domain)>> ELSE <<>>)
            IN Dedup(raw)

(***************************************************************************)
(* verifier.py: configuration, syntax check, provider classifier           *)
(***************************************************************************)
MX_CACHE_TTL == 3600

\* EMAIL_REGEX = ^[A-Za-z0-9._%+-]+@[A-Za-z0-9.-]+\.[A-Za-z]{2,}$
LOCAL_CHARS == Letters \cup Digits \cup {".", "_", "%", "+", "-"}
HOST_CHARS == Letters \cup Digits \cup {".", "-"}

\* the pattern matches s[1..n] entirely: "@" at a, the last "." at k
RegexSpans(s, n) ==
    \E a \in 2..n : \E k \in (a + 2)..(n - 2) :
        /\ s[a] = "@"
        /\ \A i \in 1..(a - 1) : s[i] \in LOCAL_CHARS
        /\ \A i \in (a + 1)..(k - 1) : s[i] \in HOST_CHARS
        /\ s[k] = "."
        /\ \A i \in (k + 1)..n : s[i] \in Letters

\* EMAIL_REGEX.match(s): "$" matches at the end of the string and also just
\* before a newline that ends the string
EMAIL_REGEX_match(s) ==
    \/ RegexSpans(s, Len(s))
    \/ (Len(s) >= 1 /\ s[Len(s)] = "\n" /\ RegexSpans(s, Len(s) - 1))

normalize_email(email) == Strip(email)

\* email.split("@", 1)[1]
RECURSIVE AfterAt(_)
AfterAt(s) ==
    IF s = <<>> THEN <<>>
    ELSE IF Head(s) = "@" THEN Tail(s) ELSE AfterAt(Tail(s))

\* the substrings detect_mx_provider looks for
OUTLOOK == <<"o","u","t","l","o","o","k">>
PROTECTION == <<"p","r","o","t","e","c","t","i","o","n">>
GOOGLE_COM == <<"g","o","o","g","l","e",".","c","o","m">>
ASPMX == <<"a","s","p","m","x">>
PPHOSTED == <<"p","p","h","o","s","t","e","d">>
PROOFPOINT == <<"p","r","o","o","f","p","o","i","n","t">>
MIMECAST == <<"m","i","m","e","c","a","s","t">>
BARRACUDA == <<"b","a","r","r","a","c","u","d","a">>

detect_mx_provider(mx_host) ==
    LET h == Lower(mx_host)
    IN IF Contains(h, OUTLOOK) \/ Contains(h, PROTECTION) THEN "microsoft365"
       ELSE IF Contains(h, GOOGLE_COM) \/ Contains(h, ASPMX) THEN "google"
       ELSE IF Contains(h, PPHOSTED) \/ Contains(h, PROOFPOINT) THEN "proofpoint"
       ELSE IF Contains(h, MIMECAST) THEN "mimecast"
       ELSE IF Contains(h, BARRACUDA) THEN "barracuda"
       ELSE "unknown"

(***************************************************************************)
(* verifier.py: smtp_multi_probe, analyze_timing, behavioral_score         *)
(***************************************************************************)
Abs(x) == IF x < 0 THEN -x ELSE x
Min(a, b) == IF a < b THEN a ELSE b
Max(a, b) == IF a > b THEN a ELSE b

SKIP_CODES == {250, 450, 451, 452}

\* One SMTP session as the server makes it: whether connect succeeds, and for
\* each RCPT the reply code (None when the call raises) and the latency
Probe(kind, p) == [addr |-> kind, code |-> p.code, time |-> p.time]

\* smtp_multi_probe without the inner try/except around each RCPT: a raising
\* RCPT ends the session in the outer handler, which appends the sentinel
smtp_multi_probe_abort(session, adaptive) ==
    IF ~session.connect
    THEN <<[addr |-> "__connect__", code |-> None, time |-> None]>>
    ELSE LET p1 == session.rcpt[1]
             p2 == session.rcpt[2]
             p3 == session.rcpt[3]
             sentinel == [addr |-> "__connect__", code |-> None, time |-> None]
             do_fake2 == ~(adaptive /\ p2.code \in SKIP_CODES
                                    /\ Abs(p2.time - p1.time) > 60)
         IN IF p1.code = None THEN <<sentinel>>
            ELSE IF p2.code = None THEN <<Probe("fake1", p1), sentinel>>
            ELSE IF do_fake2 /\ p3.code = None
                 THEN <<Probe("fake1", p1), Probe("real", p2), sentinel>>
            ELSE <<Probe("fake1", p1), Probe("real", p2)>>
                 \o (IF do_fake2 THEN <<Probe("fake2", p3)>> ELSE <<>>)

\* smtp_multi_probe with the skip test "abs(t2 - t1) >= 60"
smtp_multi_probe_ge(session, adaptive) ==
    IF ~session.connect
    THEN <<[addr |-> "__connect__", code |-> None, time |-> None]>>
    ELSE LET p1 == session.rcpt[1]
             p2 == session.rcpt[2]
             do_fake2 == ~(adaptive /\ p2.code \in SKIP_CODES
                                    /\ Abs(p2.time - p1.time) >= 60)
         IN <<Probe("fake1", p1), Probe("real", p2)>>
            \o (IF do_fake2 THEN <<Probe("fake2", session.rcpt[3])>> ELSE <<>>)

\* lines 103-175.  HELO and MAIL FROM failures are swallowed (lines 115-125),
\* so session.helo and session.mail are not read
smtp_multi_probe(session, adaptive) ==
    IF ~session.connect
    THEN <<[addr |-> "__connect__", code |-> None, time |-> None]>>
    ELSE LET p1 == session.rcpt[1]
             p2 == session.rcpt[2]
             do_fake2 == ~(adaptive /\ p2.code \in SKIP_CODES
                                    /\ Abs(p2.time - p1.time) > 60)
         IN <<Probe("fake1", p1), Probe("real", p2)>>
            \o (IF do_fake2 THEN <<Probe("fake2", session.rcpt[3])>> ELSE <<>>)

RECURSIVE SumSeq(_)
SumSeq(s) == IF s = <<>> THEN 0 ELSE Head(s) + SumSeq(Tail(s))

IsNumber(x) == x /= None

SelTime(p) == IsNumber(p.time)
SelCode(p) == p.code /= None

\* returns [conf, delta, entropy, avg]; conf in hundredths
analyze_timing(seq) ==
    LET timed == SelectSeq(seq, SelTime)
        times == {timed[i].time : i \in DOMAIN timed}
        coded == SelectSeq(seq, SelCode)
        codes == {coded[i].code : i \in DOMAIN coded}
    IN IF timed = <<>>
       THEN [conf |-> 0, delta |-> 0, entropy |-> 1, avg |-> None]
       ELSE LET hi == CHOOSE t \in times : \A u \in times : u <= t
                lo == CHOOSE t \in times : \A u \in times : t <= u
                delta == hi - lo
                avg == SumSeq([i \in DOMAIN timed |-> timed[i].time]) \div Len(timed)
                entropy == IF coded /= <<>> THEN Cardinality(codes) ELSE 1
                c1 == IF delta > 120 THEN 25
                      ELSE IF delta > 80 THEN 18
                      ELSE IF delta > 40 THEN 12
                      ELSE IF delta > 10 THEN 6
                      ELSE 0
                c2 == IF entropy > 1 THEN c1 + 5 ELSE c1
            IN [conf |-> Min(c2, 35), delta |-> delta, entropy |-> entropy,
                avg |-> avg]

\* Python's "x or 0"
OrZero(x) == IF x = None \/ x = 0 THEN 0 ELSE x

ESP_CODE_PROVIDERS == {"microsoft365", "proofpoint", "mimecast", "barracuda"}

\* f"smtp_{real_code}_valid" and f"smtp_{real_code}_unclear"
SmtpValid(code) ==
    CASE code = 250 -> "smtp_250_valid"
      [] code = 450 -> "smtp_450_valid"
      [] code = 451 -> "smtp_451_valid"
      [] code = 452 -> "smtp_452_valid"

SmtpUnclear(code) ==
    CASE code = None -> "smtp_None_unclear"
      [] code = 250 -> "smtp_250_unclear"
      [] code = 421 -> "smtp_421_unclear"
      [] code = 450 -> "smtp_450_unclear"
      [] code = 451 -> "smtp_451_unclear"
      [] code = 452 -> "smtp_452_unclear"
      [] code = 550 -> "smtp_550_unclear"
      [] OTHER -> "smtp_other_unclear"

\* lines 226-228: the "Safety" test
NoData(fake1_t, real_t) ==
    ~(IsNumber(OrZero(fake1_t)) /\ IsNumber(OrZero(real_t)))

\* lines 249-255: min(99, round(base, 2)) in hundredths.  With whole
\* milliseconds base*100 = A + conf*2000/35 + entropy*1000/3 with A an
\* integer, so base*2100 is the integer n21 and no rounding tie occurs
TimingScore(gap_real2, gap_fakes, confidence, entropy) ==
    LET n21 == 21 * (Min(gap_real2 * 25, 4000) + (2000 - Min(gap_fakes * 20, 2000)))
               + Min(confidence, 35) * 1200
               + Min(entropy, 3) * 7000
    IN Min(9900, (2 * n21 + 21) \div 42)

\* Decide with strict comparisons at both thresholds
DecideStrict(score) ==
    IF score > 8000 THEN [Status |-> "valid", Deliverable |-> TRUE]
    ELSE IF score > 5500 THEN [Status |-> "risky", Deliverable |-> FALSE]
    ELSE [Status |-> "invalid", Deliverable |-> FALSE]

\* Decide with the deliverable flag taken from the "risky" threshold
DecideLoose(score) ==
    IF score >= 8000 THEN [Status |-> "valid", Deliverable |-> TRUE]
    ELSE IF score >= 5500 THEN [Status |-> "risky", Deliverable |-> TRUE]
    ELSE [Status |-> "invalid", Deliverable |-> FALSE]

\* lines 271-277
Decide(score) ==
    IF score >= 8000 THEN [Status |-> "valid", Deliverable |-> TRUE]
    ELSE IF score >= 5500 THEN [Status |-> "risky", Deliverable |-> FALSE]
    ELSE [Status |-> "invalid", Deliverable |-> FALSE]

\* EspOverlay that accepts only 250, not the temporary codes 450/451/452
EspOverlayOnly250(provider, real_code, score0, pattern0) ==
    IF provider \in ESP_CODE_PROVIDERS
    THEN IF real_code = 250
         THEN [score |-> 9900, pattern |-> SmtpValid(real_code)]
         ELSE IF real_code = 550
         THEN [score |-> 1000, pattern |-> "smtp_550_invalid"]
         ELSE [score |-> score0, pattern |-> SmtpUnclear(real_code)]
    ELSE IF provider = "google"
    THEN IF pattern0 = "strong_delay"
         THEN [score |-> Max(score0, 9000), pattern |-> pattern0]
         ELSE IF pattern0 = "flat_pattern"
         THEN [score |-> Min(score0, 4000), pattern |-> pattern0]
         ELSE [score |-> score0, pattern |-> pattern0]
    ELSE [score |-> score0, pattern |-> pattern0]

\* EspOverlay with the google floor of 90 added to the score instead
EspOverlayBonus(provider, real_code, score0, pattern0) ==
    IF provider \in ESP_CODE_PROVIDERS
    THEN IF real_code \in SKIP_CODES
         THEN [score |-> 9900, pattern |-> SmtpValid(real_code)]
         ELSE IF real_code = 550
         THEN [score |-> 1000, pattern |-> "smtp_550_invalid"]
         ELSE [score |-> score0, pattern |-> SmtpUnclear(real_code)]
    ELSE IF provider = "google"
    THEN IF pattern0 = "strong_delay"
         THEN [score |-> score0 + 9000, pattern |-> pattern0]
         ELSE IF pattern0 = "flat_pattern"
         THEN [score |-> Min(score0, 4000), pattern |-> pattern0]
         ELSE [score |-> score0, pattern |-> pattern0]
    ELSE [score |-> score0, pattern |-> pattern0]

\* lines 257-269: the ESP-specific correction layer
EspOverlay(provider, real_code, score0, pattern0) ==
    IF provider \in ESP_CODE_PROVIDERS
    THEN IF real_code \in SKIP_CODES
         THEN [score |-> 9900, pattern |-> SmtpValid(real_code)]
         ELSE IF real_code = 550
         THEN [score |-> 1000, pattern |-> "smtp_550_invalid"]
         ELSE [score |-> score0, pattern |-> SmtpUnclear(real_code)]
    ELSE IF provider = "google"
    THEN IF pattern0 = "strong_delay"
         THEN [score |-> Max(score0, 9000), pattern |-> pattern0]
         ELSE IF pattern0 = "flat_pattern"
         THEN [score |-> Min(score0, 4000), pattern |-> pattern0]
         ELSE [score |-> score0, pattern |-> pattern0]
    ELSE [score |-> score0, pattern |-> pattern0]

\* returns [Pattern, Score, Status, Deliverable]; Score in hundredths
behavioral_score(fake1_t, fake2_t0, real_t, confidence, entropy, provider, real_code) ==
    IF NoData(fake1_t, real_t)
    THEN [Pattern |-> "no_data", Score |-> 0, Status |-> "invalid",
          Deliverable |-> FALSE]
    ELSE LET fake2_t == IF fake2_t0 = None THEN fake1_t ELSE fake2_t0
             f1 == OrZero(fake1_t)
             f2 == OrZero(fake2_t)
             r  == OrZero(real_t)
             \* avg_fake and gap_real_vs_avg_fake, both doubled
             avg_fake2 == f1 + f2
             gap_fakes == Abs(f1 - f2)
             gap_real2 == Abs(2 * r - avg_fake2)
             pattern0 ==
                 IF gap_fakes < 20 /\ gap_real2 < 40 THEN "flat_pattern"
                 ELSE IF gap_real2 > 120 /\ 2 * r > avg_fake2 THEN "strong_delay"
                 ELSE IF gap_fakes < 25 /\ 40 <= gap_real2 /\ gap_real2 <= 100
                      THEN "semi_flat"
                 ELSE "unclear"
             score0 == TimingScore(gap_real2, gap_fakes, confidence, entropy)
             esp == EspOverlay(provider, real_code, score0, pattern0)
             d == Decide(esp.score)
         IN [Pattern |-> esp.pattern, Score |-> esp.score, Status |-> d.Status,
             Deliverable |-> d.Deliverable]

(***************************************************************************)
(* verifier.py: the environment (addresses, DNS answers, SMTP sessions)    *)
(***************************************************************************)
MX_OUTLOOK == <<"a",".","o","u","t","l","o","o","k",".","c","o","m",".">>
MX_GOOGLE == <<"A","S","P","M","X",".","L",".","G","O","O","G","L","E",".","C","O","M",".">>
MX_PPHOSTED == <<"m","x",".","p","p","h","o","s","t","e","d",".","c","o","m",".">>
MX_MIMECAST == <<"e","u",".","m","i","m","e","c","a","s","t",".","c","o","m",".">>
MX_BARRACUDA == <<"d",".","b","a","r","r","a","c","u","d","a",".","n","e","t",".">>
MX_OTHER == <<"m","a","i","l",".","x",".","c","o",".">>
E_JO == <<"j","o","@","x",".","c","o">>
E_DO == <<"d","o","@","x",".","c","o">>
E_JO_UP == <<"j","o","@","X",".","C","O">>
E_JO_WS == <<" ","j","o","@","x",".","c","o","\n">>
E_JO_NL == <<"j","o","@","x",".","c","o","\n">>
E_WS_JO == <<" ","j","o","@","x",".","c","o">>
E_BAD == <<"n","o","t","-","a","n","-","e","m","a","i","l">>
E_TLD == <<"j","o","@","x",".","c">>

\* Addresses handed to verify_email by the sequential caller
VerifyEmails == {E_JO, E_JO_WS, E_BAD, E_TLD}

\* The domains resolve_mx is called with: the keys of mx_cache._store
CacheDomains == {AfterAt(e) : e \in {E_JO, E_JO_UP}}

\* What _resolver.resolve(domain, "MX") can do: raise, or answer with the
\* exchanges in the order of the DNS layer (trailing root dot included)
DnsAnswers ==
    {[ok |-> FALSE, cause |-> c, exchanges |-> <<>>] : c \in {"NXDOMAIN", "Timeout"}}
    \cup {[ok |-> TRUE, cause |-> "", exchanges |-> x] :
            x \in {<<>>, <<MX_OUTLOOK>>, <<MX_GOOGLE, MX_OTHER>>, <<MX_PPHOSTED>>,
                   <<MX_MIMECAST>>, <<MX_BARRACUDA>>, <<MX_OTHER, MX_GOOGLE>>}}

\* What the server does in one SMTP session: refuse the connection, or answer
\* the three RCPT commands with a code (None: the call raised) after a latency
ProbeCodes == {None, 250, 550}
ProbeTimes == {20, 80, 200}
ProbeReplies == [code : ProbeCodes, time : ProbeTimes]
NoReply == [code |-> None, time |-> 0]
Sessions ==
    {[connect |-> FALSE, rcpt |-> <<NoReply, NoReply, NoReply>>]}
    \cup [connect : {TRUE}, rcpt : [1..3 -> ProbeReplies]]

(***************************************************************************)
(* verifier.py: MXCache, resolve_mx, verify_email                          *)
(***************************************************************************)
MaxTicks == 2
MaxVerifyTicks == 1
MaxVerifyCalls == 2
MaxResolveCalls == 3
MaxTasks == 3

Workers == 1..MaxTasks

NoItem == [present |-> FALSE, ts |-> 0, records |-> <<>>]

\* f"mx_error:{e}"
MxError(cause) ==
    CASE cause = "NXDOMAIN" -> "mx_error:NXDOMAIN"
      [] cause = "Timeout" -> "mx_error:Timeout"

\* BlankResult with the timing fields started at zero instead of None
BlankResultZero(email) ==
    [email |-> email,
     Fake1_Code |-> None, Fake1_Time |-> None,
     Real_Code |-> None, Real_Time |-> None,
     Fake2_Code |-> None, Fake2_Time |-> None,
     Timing_Delta |-> 0, Entropy |-> 1,
     Avg_Latency |-> None, Confidence |-> 0,
     Provider |-> "None", Pattern |-> "None",
     Status |-> "invalid", Deliverable |-> FALSE,
     Score |-> 0, Reason |-> "None",
     MX |-> <<>>]

\* lines 291-302
BlankResult(email) ==
    [email |-> email,
     Fake1_Code |-> None, Fake1_Time |-> None,
     Real_Code |-> None, Real_Time |-> None,
     Fake2_Code |-> None, Fake2_Time |-> None,
     Timing_Delta |-> None, Entropy |-> None,
     Avg_Latency |-> None, Confidence |-> None,
     Provider |-> "None", Pattern |-> "None",
     Status |-> "invalid", Deliverable |-> FALSE,
     Score |-> 0, Reason |-> "None",
     MX |-> <<>>]

\* A thread that runs no call.  pc is the place in the call; item is what
\* MXCache.get read, expired whether get judged it expired, answer what the
\* DNS lookup of this call returned, mx what resolve_mx returned, io the
\* network operations of the call in order, seq what smtp_multi_probe returned
IdleWorker ==
    [pc |-> "idle", fn |-> "none", email |-> <<>>, domain |-> <<>>,
     item |-> NoItem, expired |-> FALSE, answer |-> <<>>, mx |-> <<>>,
     io |-> <<>>, seq |-> <<>>, result |-> BlankResult(<<>>), exc |-> ""]

VInit ==
    /\ store = [d \in CacheDomains |-> NoItem]
    /\ now = 0
    /\ ticks = 0
    /\ ncalls = 0
    /\ wk = [w \in Workers |-> IdleWorker]

\* lines 289-310: normalize, build the record, test the syntax, split the domain
verify_email_begin(email_in) ==
    LET email == normalize_email(email_in)
        call == [IdleWorker EXCEPT !.fn = "verify_email", !.email = email,
                                   !.result = BlankResult(email)]
    IN IF ~EMAIL_REGEX_match(email)
       THEN [call EXCEPT !.pc = "done", !.result.Reason = "bad_syntax"]
       ELSE [call EXCEPT !.pc = "get", !.domain = AfterAt(email)]

\* resolve_mx returns or raises: its locals and those of MXCache.get are gone
Leave(c) == [c EXCEPT !.item = NoItem, !.expired = FALSE, !.answer = <<>>]

\* lines 312-317 (and the return of a bare resolve_mx call): resolve_mx
\* returned mx to the call c
resolve_mx_returns(c, mx) ==
    IF c.fn = "resolve_mx" THEN [Leave(c) EXCEPT !.pc = "done", !.mx = mx]
    ELSE IF mx = <<>>
         THEN [Leave(c) EXCEPT !.pc = "done", !.mx = mx, !.result.MX = mx,
                               !.result.Reason = "no_mx"]
         ELSE [Leave(c) EXCEPT !.pc = "probe", !.mx = mx, !.result.MX = mx,
                               !.result.Provider = detect_mx_provider(mx[1])]

\* resolve_mx_raises with the "return result" of line 320 missing
resolve_mx_raises_on(c, cause) ==
    IF c.fn = "resolve_mx" THEN [Leave(c) EXCEPT !.pc = "raised", !.exc = cause]
    ELSE [Leave(c) EXCEPT !.pc = "probe", !.result.Reason = MxError(cause)]

\* lines 318-320 (and a bare resolve_mx call): the DNS lookup raised
resolve_mx_raises(c, cause) ==
    IF c.fn = "resolve_mx" THEN [Leave(c) EXCEPT !.pc = "raised", !.exc = cause]
    ELSE [Leave(c) EXCEPT !.pc = "done", !.result.Reason = MxError(cause)]

\* line 56: time.time() - ts > self.ttl
Expired(item, t) == t - item.ts > MX_CACHE_TTL

\* verify_email_probe without lines 333-335: the third record is never lifted
verify_email_probe_two(c, session) ==
    LET seq == smtp_multi_probe(session, TRUE)
        r1 == IF Len(seq) >= 1
              THEN [c.result EXCEPT !.Fake1_Code = seq[1].code,
                                    !.Fake1_Time = seq[1].time]
              ELSE c.result
        r2 == IF Len(seq) >= 2
              THEN [r1 EXCEPT !.Real_Code = seq[2].code, !.Real_Time = seq[2].time]
              ELSE r1
        a == analyze_timing(seq)
        scored == behavioral_score(r2.Fake1_Time, r2.Fake2_Time, r2.Real_Time,
                                   a.conf, a.entropy, r2.Provider, r2.Real_Code)
    IN [r2 EXCEPT !.Timing_Delta = a.delta, !.Entropy = a.entropy,
                  !.Avg_Latency = a.avg, !.Confidence = a.conf,
                  !.Pattern = scored.Pattern, !.Score = scored.Score,
                  !.Status = scored.Status, !.Deliverable = scored.Deliverable,
                  !.Reason = "pattern_analysis"]

\* lines 323-356: probe the first MX, lift the probes, analyze, score
verify_email_probe(c, session) ==
    LET seq == smtp_multi_probe(session, TRUE)
        r1 == IF Len(seq) >= 1
              THEN [c.result EXCEPT !.Fake1_Code = seq[1].code,
                                    !.Fake1_Time = seq[1].time]
              ELSE c.result
        r2 == IF Len(seq) >= 2
              THEN [r1 EXCEPT !.Real_Code = seq[2].code, !.Real_Time = seq[2].time]
              ELSE r1
        r3 == IF Len(seq) >= 3
              THEN [r2 EXCEPT !.Fake2_Code = seq[3].code, !.Fake2_Time = seq[3].time]
              ELSE r2
        a == analyze_timing(seq)
        scored == behavioral_score(r3.Fake1_Time, r3.Fake2_Time, r3.Real_Time,
                                   a.conf, a.entropy, r3.Provider, r3.Real_Code)
    IN [r3 EXCEPT !.Timing_Delta = a.delta, !.Entropy = a.entropy,
                  !.Avg_Latency = a.avg, !.Confidence = a.conf,
                  !.Pattern = scored.Pattern, !.Score = scored.Score,
                  !.Status = scored.Status, !.Deliverable = scored.Deliverable,
                  !.Reason = "pattern_analysis"]

\* verify_email(email) is entered by thread w
VerifyStart(w, email) ==
    /\ wk[w].pc \in {"idle", "done", "raised"}
    /\ wk' = [wk EXCEPT ![w] = verify_email_begin(email)]
    /\ UNCHANGED cvars

\* resolve_mx(domain) is entered by thread w
ResolveStart(w, domain) ==
    /\ wk[w].pc \in {"idle", "done", "raised"}
    /\ wk' = [wk EXCEPT ![w] = [IdleWorker EXCEPT !.fn = "resolve_mx", !.pc = "get",
                                                  !.domain = domain]]
    /\ UNCHANGED cvars

\* MXCache.get lines 52-54: item = self._store.get(domain)
CacheGet(w) ==
    /\ wk[w].pc = "get"
    /\ LET item == store[wk[w].domain]
       IN wk' = [wk EXCEPT ![w] = [@ EXCEPT !.item = item,
                                            !.pc = IF item.present THEN "check"
                                                   ELSE "dns"]]
    /\ UNCHANGED cvars

\* MXCache.get lines 55-60 and resolve_mx lines 91-92: the age test, and the
\* return of a fresh entry ("if cached" is false for an empty list)
CacheCheck(w) ==
    /\ wk[w].pc = "check"
    /\ LET c == wk[w]
       IN wk' = [wk EXCEPT ![w] =
                    IF Expired(c.item, now) THEN [c EXCEPT !.pc = "pop", !.expired = TRUE]
                    ELSE IF c.item.records /= <<>>
                         THEN resolve_mx_returns(c, c.item.records)
                         ELSE [c EXCEPT !.pc = "dns"]]
    /\ UNCHANGED cvars

\* CachePop that returns None without evicting the entry
CachePopKeeps(w) ==
    /\ wk[w].pc = "pop"
    /\ wk' = [wk EXCEPT ![w].pc = "dns"]
    /\ UNCHANGED cvars

\* MXCache.get lines 58-59: self._store.pop(domain, None); return None
CachePop(w) ==
    /\ wk[w].pc = "pop"
    /\ store' = [store EXCEPT ![wk[w].domain] = NoItem]
    /\ wk' = [wk EXCEPT ![w].pc = "dns"]
    /\ UNCHANGED <<now, ticks>>

\* resolve_mx lines 93-94: the DNS query and the rstrip('.') of each exchange
DnsResolve(w, ans) ==
    /\ wk[w].pc = "dns"
    /\ LET c == [wk[w] EXCEPT !.io = Append(@, "dns")]
       IN wk' = [wk EXCEPT ![w] =
                    IF ~ans.ok THEN resolve_mx_raises(c, ans.cause)
                    ELSE [c EXCEPT !.pc = "set",
                                   !.answer = [i \in DOMAIN ans.exchanges |->
                                                  RStripDot(ans.exchanges[i])]]]
    /\ UNCHANGED cvars

\* CacheSet on a cache with a single slot shared by all domains
CacheSetShared(w) ==
    /\ wk[w].pc = "set"
    /\ store' = [d \in CacheDomains |->
                    [present |-> TRUE, ts |-> now, records |-> wk[w].answer]]
    /\ wk' = [wk EXCEPT ![w] = resolve_mx_returns(wk[w], wk[w].answer)]
    /\ UNCHANGED <<now, ticks>>

\* resolve_mx lines 96-97 and MXCache.set: store and return mx_hosts
CacheSet(w) ==
    /\ wk[w].pc = "set"
    /\ store' = [store EXCEPT ![wk[w].domain] =
                    [present |-> TRUE, ts |-> now, records |-> wk[w].answer]]
    /\ wk' = [wk EXCEPT ![w] = resolve_mx_returns(wk[w], wk[w].answer)]
    /\ UNCHANGED <<now, ticks>>

\* verify_email lines 323-356: one SMTP session to the first MX
SmtpProbe(w, session) ==
    /\ wk[w].pc = "probe"
    /\ LET c == [wk[w] EXCEPT !.io = Append(@, "smtp")]
       IN wk' = [wk EXCEPT ![w] =
                    [c EXCEPT !.pc = "done", !.seq = smtp_multi_probe(session, TRUE),
                              !.result = verify_email_probe(c, session)]]
    /\ UNCHANGED cvars

\* The clock advances
Tick(d, max) ==
    /\ ticks < max
    /\ now' = now + d
    /\ ticks' = ticks + 1
    /\ UNCHANGED <<store, wk>>

(***************************************************************************)
(* One thread calling verify_email again and again (no batch is running:   *)
(* bpc = "idle")                                                           *)
(***************************************************************************)
SeqCall ==
    /\ bpc = "idle"
    /\ ncalls < MaxVerifyCalls
    /\ ncalls' = ncalls + 1
    /\ \E e \in VerifyEmails : VerifyStart(1, e)
    /\ UNCHANGED <<fvars, uvars, bvars>>

SeqGet == bpc = "idle" /\ CacheGet(1) /\ UNCHANGED <<ncalls, fvars, uvars, bvars>>
SeqCheck == bpc = "idle" /\ CacheCheck(1) /\ UNCHANGED <<ncalls, fvars, uvars, bvars>>
SeqPop == bpc = "idle" /\ CachePop(1) /\ UNCHANGED <<ncalls, fvars, uvars, bvars>>
SeqDns == bpc = "idle" /\ (\E ans \in DnsAnswers : DnsResolve(1, ans)) /\ UNCHANGED <<ncalls, fvars, uvars, bvars>>
SeqSet == bpc = "idle" /\ CacheSet(1) /\ UNCHANGED <<ncalls, fvars, uvars, bvars>>
SeqProbe == bpc = "idle" /\ (\E s \in Sessions : SmtpProbe(1, s)) /\ UNCHANGED <<ncalls, fvars, uvars, bvars>>
\* time.time() is read in CacheCheck and CacheSet only: the clock's advance
\* is taken right before such a read
SeqTick ==
    /\ bpc = "idle"
    /\ wk[1].pc \in {"check", "set"}
    /\ Tick(MX_CACHE_TTL + 1, MaxVerifyTicks)
    /\ UNCHANGED <<ncalls, fvars, uvars, bvars>>

VNext ==
    SeqCall \/ SeqGet \/ SeqCheck \/ SeqPop \/ SeqDns \/ SeqSet \/ SeqProbe \/ SeqTick

(***************************************************************************)
(* One thread calling verify_email on addresses whose domains differ in    *)
(* letter case only, the clock standing still                              *)
(***************************************************************************)
CaseEmails == {E_JO, E_JO_UP}

CaseCall ==
    /\ bpc = "idle"
    /\ ncalls < MaxVerifyCalls
    /\ ncalls' = ncalls + 1
    /\ \E e \in CaseEmails : VerifyStart(1, e)
    /\ UNCHANGED <<fvars, uvars, bvars>>

CaseNext == CaseCall \/ SeqGet \/ SeqCheck \/ SeqDns \/ SeqSet \/ SeqProbe

(***************************************************************************)
(* One thread calling resolve_mx again and again while the clock advances  *)
(***************************************************************************)
ResCall ==
    /\ ncalls < MaxResolveCalls
    /\ ncalls' = ncalls + 1
    /\ \E d \in CacheDomains : ResolveStart(1, d)
    /\ UNCHANGED <<fvars, uvars, bvars>>

ResGet == CacheGet(1) /\ UNCHANGED <<ncalls, fvars, uvars, bvars>>
ResCheck == CacheCheck(1) /\ UNCHANGED <<ncalls, fvars, uvars, bvars>>
ResPop == CachePop(1) /\ UNCHANGED <<ncalls, fvars, uvars, bvars>>
ResDns == (\E ans \in DnsAnswers : DnsResolve(1, ans)) /\ UNCHANGED <<ncalls, fvars, uvars, bvars>>
ResSet == CacheSet(1) /\ UNCHANGED <<ncalls, fvars, uvars, bvars>>
ResTick == (\E d \in {1, MX_CACHE_TTL} : Tick(d, MaxTicks)) /\ UNCHANGED <<ncalls, fvars, uvars, bvars>>

CNext == ResCall \/ ResGet \/ ResCheck \/ ResPop \/ ResDns \/ ResSet \/ ResTick

(***************************************************************************)
(* Pool threads calling resolve_mx concurrently while the clock advances.  *)
(* Each step is one bytecode-atomic operation on the shared dict           *)
(* (_store.get, _store.pop, _store[domain] = ...), the age test, or the    *)
(* DNS query; the interpreter may switch threads between any two of them.  *)
(***************************************************************************)
MaxRaceCalls == 3
MaxRaceTicks == 1
MaxRaceThreads == 2

RaceThreads == 1..MaxRaceThreads

\* What the resolver can answer for each of the two names: the lists of the
\* two names are kept apart, so that a list served for the wrong name shows
RaceDnsAnswers(domain) ==
    {[ok |-> FALSE, cause |-> "Timeout", exchanges |-> <<>>]}
    \cup {[ok |-> TRUE, cause |-> "", exchanges |-> x] :
            x \in IF domain = Lower(domain)
                  THEN {<<MX_OTHER, MX_GOOGLE>>, <<MX_GOOGLE, MX_OTHER>>}
                  ELSE {<<MX_OUTLOOK, MX_MIMECAST>>}}

RaceCall ==
    /\ ncalls < MaxRaceCalls
    /\ ncalls' = ncalls + 1
    /\ \E w \in RaceThreads, d \in CacheDomains : ResolveStart(w, d)
    /\ UNCHANGED <<fvars, uvars, bvars>>

RaceGet == (\E w \in RaceThreads : CacheGet(w)) /\ UNCHANGED <<ncalls, fvars, uvars, bvars>>
RaceCheck == (\E w \in RaceThreads : CacheCheck(w)) /\ UNCHANGED <<ncalls, fvars, uvars, bvars>>
RacePop == (\E w \in RaceThreads : CachePop(w)) /\ UNCHANGED <<ncalls, fvars, uvars, bvars>>
RaceDns ==
    /\ \E w \in RaceThreads :
          \E ans \in RaceDnsAnswers(wk[w].domain) : DnsResolve(w, ans)
    /\ UNCHANGED <<ncalls, fvars, uvars, bvars>>
RaceSet == (\E w \in RaceThreads : CacheSet(w)) /\ UNCHANGED <<ncalls, fvars, uvars, bvars>>
\* the clock's advance is taken right before a thread reads time.time()
RaceTick ==
    /\ \E w \in RaceThreads : wk[w].pc \in {"check", "set"}
    /\ Tick(MX_CACHE_TTL + 1, MaxRaceTicks)
    /\ UNCHANGED <<ncalls, fvars, uvars, bvars>>

RaceNext ==
    RaceCall \/ RaceGet \/ RaceCheck \/ RacePop \/ RaceDns \/ RaceSet \/ RaceTick

(***************************************************************************)
(* verifier.py: verify_bulk_emails                                         *)
(***************************************************************************)
\* Input lists of a batch
BulkInputs == {
    <<E_JO, E_JO>>,
    <<E_JO, E_DO>>,
    <<E_BAD, E_DO, <<>>, E_JO_NL>>,
    <<E_WS_JO, E_TLD>>,
    <<E_JO_NL, E_DO, E_JO>> }

MaxPool == 2

\* The DNS answers and SMTP sessions of a batch
BulkDnsAnswers ==
    {a \in DnsAnswers : ~a.ok /\ a.cause = "NXDOMAIN"}
    \cup {a \in DnsAnswers : a.ok /\ a.exchanges = <<MX_OTHER, MX_GOOGLE>>}

Reply(c, t) == [code |-> c, time |-> t]

BulkSessions ==
    {s \in Sessions : ~s.connect}
    \cup {[connect |-> TRUE, rcpt |-> r] :
            r \in {<<Reply(550, 20), Reply(250, 200), Reply(550, 20)>>,
                   <<Reply(550, 20), Reply(550, 200), Reply(550, 20)>>}}

\* line 362: e and EMAIL_REGEX.match(e)
Survives(e) == e /= <<>> /\ EMAIL_REGEX_match(e)

\* line 362
PreFilter(emails) ==
    LET kept == SelectSeq(emails, Survives)
    IN [i \in DOMAIN kept |-> normalize_email(kept[i])]

\* lines 378-384
ErrorResult(email, e) ==
    [email |-> email, Status |-> "error", Deliverable |-> FALSE, Score |-> 0,
     Reason |-> CASE e = "RuntimeError" -> "exception:RuntimeError"]

\* f.result() of the future of thread w: the record, or the one built from
\* the exception it raised (lines 374-384)
FutureResult(w) ==
    IF wk[w].pc = "raised" THEN ErrorResult(bemails[w], wk[w].exc)
    ELSE wk[w].result

\* line 386: {r.get("email"): r for r in results}; a later r replaces an
\* earlier one with the same key
RECURSIVE EmailToResult(_, _)
EmailToResult(results, e) ==
    IF results = <<>> THEN [found |-> FALSE, r |-> ErrorResult(e, "RuntimeError")]
    ELSE LET last == results[Len(results)]
         IN IF last.email = e THEN [found |-> TRUE, r |-> last]
            ELSE EmailToResult(SubSeq(results, 1, Len(results) - 1), e)

\* line 387: [email_to_result.get(e) for e in emails if e in email_to_result]
RECURSIVE Reorder(_, _)
Reorder(emails, results) ==
    IF emails = <<>> THEN <<>>
    ELSE LET hit == EmailToResult(results, Head(emails))
         IN (IF hit.found THEN <<hit.r>> ELSE <<>>) \o Reorder(Tail(emails), results)

BInit ==
    /\ bpc = "idle"
    /\ bemails = <<>>
    /\ bmax = 0
    /\ bdone = {}
    /\ bresults = <<>>
    /\ bout = <<>>

\* threads of the pool that are running verify_email
Running == {w \in Workers : wk[w].pc \notin {"idle", "queued", "done", "raised"}}

\* lines 361-372: pre-filter, return [] if nothing is left, else submit all
BulkStart(emails, max_workers) ==
    /\ bpc = "idle"
    /\ LET es == PreFilter(emails)
       IN /\ bemails' = es
          /\ bmax' = max_workers
          /\ IF es = <<>>
             THEN /\ bpc' = "done"
                  /\ UNCHANGED wk
             ELSE /\ bpc' = "running"
                  /\ wk' = [w \in Workers |->
                              IF w <= Len(es)
                              THEN [IdleWorker EXCEPT !.pc = "queued", !.email = es[w]]
                              ELSE wk[w]]
    /\ UNCHANGED <<bdone, bresults, bout, cvars, ncalls, fvars, uvars>>

\* a pool thread takes the queued call w: verify_email(e) is entered
BulkRun(w) ==
    /\ bpc = "running"
    /\ wk[w].pc = "queued"
    /\ Cardinality(Running) < bmax
    /\ wk' = [wk EXCEPT ![w] = verify_email_begin(wk[w].email)]
    /\ UNCHANGED <<bvars, cvars, ncalls, fvars, uvars>>

\* verify_email raises outside its own try blocks
VerifyRaise(w, e) ==
    /\ wk[w].pc = "probe"
    /\ wk' = [wk EXCEPT ![w] = [@ EXCEPT !.pc = "raised", !.exc = e]]
    /\ UNCHANGED cvars

\* lines 373-384: as_completed yields a finished future, its result is appended
BulkCollect(w) ==
    /\ bpc = "running"
    /\ w <= Len(bemails)
    /\ w \notin bdone
    /\ wk[w].pc \in {"done", "raised"}
    /\ bdone' = bdone \cup {w}
    /\ bresults' = Append(bresults, FutureResult(w))
    /\ UNCHANGED <<bpc, bemails, bmax, bout, vvars, fvars, uvars>>

\* lines 385-387: every future was yielded; reorder and return
BulkReturn ==
    /\ bpc = "running"
    /\ bdone = 1..Len(bemails)
    /\ bout' = Reorder(bemails, bresults)
    /\ bpc' = "done"
    /\ UNCHANGED <<bemails, bmax, bdone, bresults, vvars, fvars, uvars>>

BulkCall ==
    /\ ncalls = 0
    /\ \E emails \in BulkInputs, m \in 1..MaxPool : BulkStart(emails, m)
BulkTask == \E w \in Workers : BulkRun(w)
BulkGet == (\E w \in Workers : CacheGet(w)) /\ UNCHANGED <<ncalls, fvars, uvars, bvars>>
BulkCheck == (\E w \in Workers : CacheCheck(w)) /\ UNCHANGED <<ncalls, fvars, uvars, bvars>>
BulkDns ==
    (\E w \in Workers, ans \in BulkDnsAnswers : DnsResolve(w, ans))
    /\ UNCHANGED <<ncalls, fvars, uvars, bvars>>
BulkSet == (\E w \in Workers : CacheSet(w)) /\ UNCHANGED <<ncalls, fvars, uvars, bvars>>
BulkProbe ==
    (\E w \in Workers, s \in BulkSessions : SmtpProbe(w, s))
    /\ UNCHANGED <<ncalls, fvars, uvars, bvars>>
BulkRaise ==
    (\E w \in Workers : VerifyRaise(w, "RuntimeError"))
    /\ UNCHANGED <<ncalls, fvars, uvars, bvars>>
BulkYield == \E w \in Workers : BulkCollect(w)

BNext ==
    BulkCall \/ BulkTask \/ BulkGet \/ BulkCheck \/ BulkDns \/ BulkSet \/ BulkProbe
    \/ BulkRaise \/ BulkYield \/ BulkReturn

(***************************************************************************)
(* finder.py: POST /find                                                   *)
(***************************************************************************)
\* Requests: full names and domains the handler may receive
FullNames == {
    <<"J","o"," ","D","o">>,
    <<" ","j","o"," "," ","M","."," ","d","o","!">>,
    <<"a"," ","a">>,
    <<"A","l">>,
    <<"4","2","!">>,
    <<" ">> }

Domains == {
    <<"x",".","c","o">>,
    <<"@","X",".","C","O"," ">>,
    <<"n","o","d","o","t">>,
    <<>> }

\* What one verify_email invocation can do, seen from find_email: raise, or
\* return a value that is falsy (None, {}) or a record with any Deliverable
\* and Status
Statuses == {"valid", "risky", "invalid", "error"}

VerifierBehaviours ==
    {[raised |-> TRUE, truthy |-> FALSE, Deliverable |-> FALSE, Status |-> "invalid"],
     [raised |-> FALSE, truthy |-> FALSE, Deliverable |-> FALSE, Status |-> "invalid"]}
    \cup [raised : {FALSE}, truthy : {TRUE}, Deliverable : BOOLEAN, Status : Statuses]

\* finder.py line 115: result and result.get("Deliverable") and
\* result.get("Status") == "valid"
Qualifies(r) == r.truthy /\ r.Deliverable /\ r.Status = "valid"

\* What the invocation did, as recorded in outcomes: it raised, it returned a
\* record with Deliverable true and Status "valid", or it returned anything else
Observed(r) ==
    IF r.raised THEN "raised"
    ELSE IF r.truthy /\ r.Deliverable = TRUE /\ r.Status = "valid" THEN "deliverable"
    ELSE "other"

NoResponse == [code |-> 0, found |-> <<>>, null |-> TRUE]

FInit ==
    /\ fpc = "idle"
    /\ patterns = <<>>
    /\ fidx = 1
    /\ calls = <<>>
    /\ outcomes = <<>>
    /\ fresp = NoResponse

\* lines 97-105: clean the request, generate the patterns, 400 on bad input
FindStart(full_name, domain) ==
    /\ fpc = "idle"
    /\ IF ~clean_domain_ok(domain)
       THEN /\ fpc' = "done"
            /\ fresp' = [code |-> 400, found |-> <<>>, null |-> TRUE]
            /\ UNCHANGED patterns
       ELSE LET ps == generate_patterns(Strip(full_name), clean_domain_text(domain))
            IN /\ patterns' = ps
               /\ IF ps = <<>>
                  THEN /\ fpc' = "done"
                       /\ fresp' = [code |-> 400, found |-> <<>>, null |-> TRUE]
                  ELSE /\ fpc' = "loop"
                       /\ UNCHANGED fresp
    /\ UNCHANGED <<fidx, calls, outcomes, vvars, bvars, uvars>>

\* lines 107-109: the next pattern is handed to verify_email (asyncio.to_thread)
FindCall ==
    /\ fpc = "loop"
    /\ fidx <= Len(patterns)
    /\ calls' = Append(calls, patterns[fidx])
    /\ fpc' = "await"
    /\ UNCHANGED <<patterns, fidx, outcomes, fresp, vvars, bvars, uvars>>

\* FindResume without the return of line 117: the loop goes on after a hit
FindResumeNoStop(r) ==
    /\ fpc = "await"
    /\ outcomes' = Append(outcomes, Observed(r))
    /\ fpc' = "loop"
    /\ fidx' = fidx + 1
    /\ IF ~r.raised /\ Qualifies(r)
       THEN fresp' = [code |-> 200, found |-> patterns[fidx], null |-> FALSE]
       ELSE UNCHANGED fresp
    /\ UNCHANGED <<patterns, calls, vvars, bvars, uvars>>

\* FindResume without the try/except of lines 108-113: a raise ends the request
FindResumeNoCatch(r) ==
    /\ fpc = "await"
    /\ outcomes' = Append(outcomes, Observed(r))
    /\ IF r.raised
       THEN /\ fpc' = "done"
            /\ fresp' = [code |-> 500, found |-> <<>>, null |-> TRUE]
            /\ UNCHANGED fidx
       ELSE IF Qualifies(r)
       THEN /\ fpc' = "done"
            /\ fresp' = [code |-> 200, found |-> patterns[fidx], null |-> FALSE]
            /\ UNCHANGED fidx
       ELSE /\ fpc' = "loop"
            /\ fidx' = fidx + 1
            /\ UNCHANGED fresp
    /\ UNCHANGED <<patterns, calls, vvars, bvars, uvars>>

\* lines 109-117: the awaited call raises or returns
FindResume(r) ==
    /\ fpc = "await"
    /\ outcomes' = Append(outcomes, Observed(r))
    /\ IF ~r.raised /\ Qualifies(r)
       THEN /\ fpc' = "done"
            /\ fresp' = [code |-> 200, found |-> patterns[fidx], null |-> FALSE]
            /\ UNCHANGED fidx
       ELSE /\ fpc' = "loop"
            /\ fidx' = fidx + 1
            /\ UNCHANGED fresp
    /\ UNCHANGED <<patterns, calls, vvars, bvars, uvars>>

\* lines 119-120: the loop ran out of patterns
FindNone ==
    /\ fpc = "loop"
    /\ fidx > Len(patterns)
    /\ fpc' = "done"
    /\ fresp' = [code |-> 200, found |-> <<>>, null |-> TRUE]
    /\ UNCHANGED <<patterns, fidx, calls, outcomes, vvars, bvars, uvars>>

FindRequest == \E n \in FullNames, d \in Domains : FindStart(n, d)
FindVerified == \E r \in VerifierBehaviours : FindResume(r)

FNext == FindRequest \/ FindCall \/ FindVerified \/ FindNone


(***************************************************************************)
(* Direct calls of generate_patterns, smtp_multi_probe and behavioral_score *)
(***************************************************************************)
\* no function has been called yet
NoCall == [fn |-> "none"]

UInit == ucall = NoCall

\* The domains find_email hands to generate_patterns (finder.py line 99-101)
PatternDomains == {clean_domain_text(d) : d \in {x \in Domains : clean_domain_ok(x)}}

\* generate_patterns(full_name, domain), finder.py lines 56-85
PatternsCall ==
    /\ ucall = NoCall
    /\ \E n \in FullNames, d \in PatternDomains :
          ucall' = [fn |-> "generate_patterns", full_name |-> n, domain |-> d,
                    out |-> generate_patterns(n, d)]
    /\ UNCHANGED <<fvars, vvars, bvars>>

\* SMTP sessions for a direct smtp_multi_probe call: connect, HELO and MAIL
\* FROM succeed or raise, each RCPT is answered with a code after a latency
\* or raises (code None)
UnitReplies == [code : {None, 250, 451, 550}, time : {20, 80, 81}]
UnitLastReplies == [code : {None, 550}, time : {20}]
UnitSessions ==
    {[connect |-> c, helo |-> h, mail |-> m, rcpt |-> <<p1, p2, p3>>] :
        c \in BOOLEAN, h \in BOOLEAN, m \in BOOLEAN,
        p1 \in UnitReplies, p2 \in UnitReplies, p3 \in UnitLastReplies}

\* smtp_multi_probe(mx, target_email, adaptive), verifier.py lines 103-175
ProbeCall ==
    /\ ucall = NoCall
    /\ \E session \in UnitSessions, adaptive \in BOOLEAN :
          ucall' = [fn |-> "smtp_multi_probe", session |-> session,
                    adaptive |-> adaptive,
                    out |-> smtp_multi_probe(session, adaptive)]
    /\ UNCHANGED <<fvars, vvars, bvars>>

\* Arguments of a direct behavioral_score call: latencies in ms (None when
\* absent), confidence in hundredths, entropy, provider tag and real code
ScoreTimes1 == {None, 20}
ScoreTimes2 == {None, 20, 26}
ScoreTimesReal == {None, 20, 30, 51, 80, 101, 200}
ScoreConfidences == {0, 12, 33, 35}
ScoreEntropies == {1, 3}
Providers == {"microsoft365", "google", "proofpoint", "mimecast", "barracuda", "unknown"}
ScoreCodes == {None, 250, 421, 451, 550}

\* behavioral_score(...), verifier.py lines 209-284
ScoreCall ==
    /\ ucall = NoCall
    /\ \E f1 \in ScoreTimes1, f2 \in ScoreTimes2, r \in ScoreTimesReal,
          c \in ScoreConfidences, e \in ScoreEntropies, p \in Providers,
          code \in ScoreCodes :
          ucall' = [fn |-> "behavioral_score", fake1_t |-> f1, fake2_t |-> f2,
                    real_t |-> r, confidence |-> c, entropy |-> e,
                    provider |-> p, real_code |-> code,
                    out |-> behavioral_score(f1, f2, r, c, e, p, code)]
    /\ UNCHANGED <<fvars, vvars, bvars>>

UNext == PatternsCall \/ ProbeCall \/ ScoreCall

(***************************************************************************)
(* Properties                                                              *)
(***************************************************************************)
\* C1: find_email invokes verify_email on the patterns strictly in list
\* order, one call at a time; the first pattern whose result has Deliverable
\* true and Status "valid" is returned as found, and no pattern after it is
\* verified (if the k-th pattern is the first such, there are exactly k calls)
C1_OrderAndEarlyStop ==
    /\ Len(calls) <= Len(patterns)
    /\ \A i \in DOMAIN calls : calls[i] = patterns[i]
    /\ IF fpc = "await" THEN Len(calls) = Len(outcomes) + 1
       ELSE Len(calls) = Len(outcomes)
    /\ \A i \in DOMAIN outcomes :
          outcomes[i] = "deliverable" =>
             /\ Len(calls) = i
             /\ fpc = "done"
             /\ fresp = [code |-> 200, found |-> patterns[i], null |-> FALSE]
    /\ (fpc = "done" /\ ~fresp.null) =>
          /\ outcomes /= <<>>
          /\ outcomes[Len(outcomes)] = "deliverable"

\* the 4th of 8 patterns is the first deliverable one, after a raise
C1_Witness ==
    /\ fpc = "done"
    /\ Len(patterns) = 8
    /\ Len(calls) = 4
    /\ outcomes[1] = "raised"
    /\ outcomes[4] = "deliverable"
    /\ fresp.found = patterns[4]

\* C2: in find_email a verify_email call that raises is skipped and the next
\* pattern is tried; when no pattern yields Deliverable true and Status
\* "valid" (also when every call raises) the request ends with 200 and
\* found = null, and it never ends in an error
C2_RaiseSkipsToNext ==
    /\ fresp.code \in {0, 200, 400}
    /\ \A i \in DOMAIN outcomes :
          outcomes[i] = "raised" =>
             IF i < Len(patterns)
             THEN \/ (Len(calls) > i /\ calls[i + 1] = patterns[i + 1])
                  \/ (fpc = "loop" /\ fidx = i + 1 /\ Len(calls) = i)
             ELSE \/ (fpc = "loop" /\ fidx = i + 1)
                  \/ (fpc = "done" /\ fresp = [code |-> 200, found |-> <<>>,
                                               null |-> TRUE])
    /\ (fpc = "done" /\ patterns /= <<>>
        /\ \A i \in DOMAIN outcomes : outcomes[i] /= "deliverable") =>
          /\ fresp = [code |-> 200, found |-> <<>>, null |-> TRUE]
          /\ Len(outcomes) = Len(patterns)

\* all 8 calls raised and the request ended with found = null
C2_Witness ==
    /\ fpc = "done"
    /\ Len(patterns) = 8
    /\ Len(outcomes) = 8
    /\ \A i \in DOMAIN outcomes : outcomes[i] = "raised"
    /\ fresp = [code |-> 200, found |-> <<>>, null |-> TRUE]

\* the records of verify_email calls and of the running batch
AllResults ==
    {wk[w].result : w \in Workers}
    \cup {FutureResult(w) : w \in {v \in 1..Len(bemails) : wk[v].pc \in {"done", "raised"}}}
    \cup Range(bresults) \cup Range(bout)

\* C3: every result record of verify_email and of verify_bulk_emails, on
\* every path, has Deliverable true if and only if Status is "valid"
C3_DeliverableIffValid ==
    \A r \in AllResults : (r.Deliverable = TRUE) <=> (r.Status = "valid")

\* a returned batch with an error record and a valid record, one of its
\* tasks having ended risky
C3_Witness ==
    /\ bpc = "done"
    /\ \E i, j \in DOMAIN bout :
          /\ bout[i].Status = "error" /\ ~bout[i].Deliverable
          /\ bout[j].Status = "valid" /\ bout[j].Deliverable
    /\ \E r \in AllResults : r.Status = "risky" /\ ~r.Deliverable

Sentinel == <<[addr |-> "__connect__", code |-> None, time |-> None]>>

\* C4: when the SMTP connection cannot be established (the probe returns
\* only the "__connect__" sentinel) the result has Pattern "no_data", Score 0,
\* Status "invalid" and Deliverable false, for every provider
C4_ConnectFailureIsNoData ==
    \A w \in Workers :
       (wk[w].pc = "done" /\ wk[w].seq = Sentinel) =>
          /\ wk[w].result.Pattern = "no_data"
          /\ wk[w].result.Score = 0
          /\ wk[w].result.Status = "invalid"
          /\ wk[w].result.Deliverable = FALSE

TerminalReasons == {"bad_syntax", "no_mx", "mx_error:NXDOMAIN", "mx_error:Timeout"}

\* C5: a verify_email result whose Reason is bad_syntax, no_mx or mx_error
\* has every probe field and every timing field absent and Score 0
C5_TerminalReasonsBlank ==
    \A w \in Workers :
       LET r == wk[w].result
       IN r.Reason \in TerminalReasons =>
             /\ r.Fake1_Code = None /\ r.Fake1_Time = None
             /\ r.Real_Code = None /\ r.Real_Time = None
             /\ r.Fake2_Code = None /\ r.Fake2_Time = None
             /\ r.Timing_Delta = None /\ r.Entropy = None
             /\ r.Avg_Latency = None /\ r.Confidence = None
             /\ r.Score = 0

\* the second call of the thread ended with a DNS failure
C5_Witness ==
    /\ ncalls = 2
    /\ wk[1].pc = "done"
    /\ wk[1].result.Reason = "mx_error:Timeout"

\* C6: a verify_email call that ends with bad_syntax has done no DNS query
\* and opened no SMTP session; one that ends with no_mx or mx_error has
\* opened no SMTP session; an SMTP session is only opened after resolve_mx
\* has returned a non-empty MX list, and it is the call's last network step
C6_NoNetworkBeforeItsStep ==
    \A w \in Workers :
       LET c == wk[w]
       IN /\ c.result.Reason = "bad_syntax" => c.io = <<>>
          /\ c.result.Reason \in TerminalReasons => "smtp" \notin Range(c.io)
          /\ "smtp" \in Range(c.io) =>
                /\ c.io[Len(c.io)] = "smtp"
                /\ \A i \in 1..(Len(c.io) - 1) : c.io[i] = "dns"
                /\ c.result.MX /= <<>>
                /\ c.result.MX = c.mx

\* a call ended with no_mx after its DNS query, without any SMTP session
C6_Witness ==
    /\ wk[1].pc = "done"
    /\ wk[1].result.Reason = "no_mx"
    /\ wk[1].io = <<"dns">>

\* C7: in every result Score is in [0, 99] and Confidence, where present, is
\* in [0.00, 0.35]; it is present in every pattern_analysis result
C7_ScoreAndConfidenceBounds ==
    \A w \in Workers :
       LET r == wk[w].result
       IN /\ r.Score >= 0 /\ r.Score <= 9900
          /\ r.Confidence /= None => (r.Confidence >= 0 /\ r.Confidence <= 35)
          /\ r.Reason = "pattern_analysis" => r.Confidence /= None

\* a probed result at the top of the score range with the largest confidence
C7_Witness ==
    /\ wk[1].pc = "done"
    /\ wk[1].result.Reason = "pattern_analysis"
    /\ wk[1].result.Score = 9900
    /\ wk[1].result.Confidence = 30

\* C8: verify_bulk_emails returns one result per surviving input, the i-th
\* output being the result of the i-th surviving input, for every completion
\* order and also when an address occurs more than once
C8_OneResultPerInputInOrder ==
    bpc = "done" =>
       /\ Len(bout) = Len(bemails)
       /\ \A i \in DOMAIN bout : bout[i] = FutureResult(i)

\* C9: an exception in the verification of one address does not abort the
\* batch: the failing address gets a record with Status "error", Deliverable
\* false, Score 0 and Reason "exception:<detail>", every other one its result
C9_FailureIsolated ==
    bpc = "done" =>
       /\ Len(bout) = Len(bemails)
       /\ \A w \in DOMAIN bout :
             IF wk[w].pc = "raised"
             THEN /\ bout[w].email = bemails[w]
                  /\ bout[w].Status = "error"
                  /\ bout[w].Deliverable = FALSE
                  /\ bout[w].Score = 0
                  /\ bout[w].Reason = "exception:RuntimeError"
             ELSE /\ bout[w].email = bemails[w]
                  /\ bout[w].Status /= "error"

\* C10: a resolve_mx call that finds an entry older than the TTL treats it as
\* absent: the entry is removed on that read, a DNS lookup is issued, and the
\* call returns the list of that lookup, stored with the current time
C10_ExpiredEntryRefetched ==
    [][\A w \in Workers :
          LET c == wk[w]
              d == wk'[w]
          IN /\ (c.pc = "check" /\ d /= c /\ now - c.item.ts > MX_CACHE_TTL) =>
                   (d.pc = "pop" /\ d.expired)
             /\ (c.pc = "pop" /\ d /= c) =>
                   (~store'[c.domain].present /\ d.pc = "dns" /\ d.expired)
             /\ (c.expired /\ c.pc = "dns" /\ d /= c) =>
                   /\ d.io = Append(c.io, "dns")
                   /\ d.pc \in {"set", "raised"}
             /\ (c.expired /\ c.pc = "set" /\ d /= c) =>
                   /\ d.pc = "done"
                   /\ d.mx = c.answer
                   /\ store'[c.domain] =
                         [present |-> TRUE, ts |-> now, records |-> c.answer]
      ]_vars

\* an expired entry was removed and the fresh lookup returned another list
C10_Witness ==
    /\ wk[1].pc = "set"
    /\ wk[1].expired
    /\ wk[1].item.present
    /\ wk[1].item.records /= <<>>
    /\ wk[1].answer /= wk[1].item.records
    /\ ~store[wk[1].domain].present

\* the components generate_patterns works with, and the canonical 8 entries
\* that have all their required components, in order
NameParts(n) == clean_name(n)
CanonicalKept(n, d) ==
    LET parts == NameParts(n)
        first == parts[1]
        last == IF Len(parts) > 1 THEN parts[Len(parts)] ELSE <<>>
        fi == <<first[1]>>
        li == IF last = <<>> THEN <<>> ELSE <<last[1]>>
        all == << [local |-> first, needs |-> {first}],
                  [local |-> last, needs |-> {last}],
                  [local |-> fi \o <<".">> \o last, needs |-> {fi, last}],
                  [local |-> first \o <<".">> \o last, needs |-> {last}],
                  [local |-> first \o <<".">> \o li, needs |-> {li}],
                  [local |-> first \o last, needs |-> {last}],
                  [local |-> last \o first, needs |-> {last}],
                  [local |-> fi \o li, needs |-> {fi, li}] >>
        HasAll(e) == <<>> \notin e.needs
        kept == SelectSeq(all, HasAll)
    IN [i \in DOMAIN kept |-> kept[i].local \o <<"@">> \o d]

FirstIndex(s, x) == CHOOSE i \in DOMAIN s : s[i] = x /\ \A j \in 1..(i - 1) : s[j] /= x

\* C11: generate_patterns returns a duplicate-free list: the canonical 8
\* entries (first, last, f.last, first.last, first.l, firstlast, lastfirst,
\* fl, each at the domain) whose required components are non-empty, each kept
\* at its first occurrence; it is empty exactly when the name has no tokens
C11_CanonicalPatterns ==
    ucall.fn = "generate_patterns" =>
       LET out == ucall.out
           parts == NameParts(ucall.full_name)
       IN /\ (out = <<>>) <=> (parts = <<>>)
          /\ \A i, j \in DOMAIN out : out[i] = out[j] => i = j
          /\ parts /= <<>> =>
                LET kept == CanonicalKept(ucall.full_name, ucall.domain)
                IN /\ Range(out) = Range(kept)
                   /\ \A i, j \in DOMAIN out :
                         i < j => FirstIndex(kept, out[i]) < FirstIndex(kept, out[j])

\* the name "a a": 8 canonical entries, 3 of them distinct
C11_Witness ==
    /\ ucall.fn = "generate_patterns"
    /\ NameParts(ucall.full_name) /= <<>>
    /\ Len(CanonicalKept(ucall.full_name, ucall.domain)) = 8
    /\ Len(ucall.out) = 3
    /\ ucall.out[3] = <<"a", "a", "@">> \o ucall.domain

\* C12: for every behavioral_score result past the degenerate case, Status
\* is "valid" exactly when the final Score is >= 80, "risky" exactly when
\* 55 <= Score < 80 and "invalid" exactly when Score < 55, the Score being
\* the one after the provider overlay (80 valid, 79.99 risky, 55 risky,
\* 54.99 invalid)
C12_StatusThresholds ==
    (ucall.fn = "behavioral_score" /\ ucall.out.Pattern /= "no_data") =>
       LET r == ucall.out
       IN /\ r.Status \in {"valid", "risky", "invalid"}
          /\ (r.Status = "valid") <=> (r.Score >= 8000)
          /\ (r.Status = "risky") <=> (r.Score >= 5500 /\ r.Score < 8000)
          /\ (r.Status = "invalid") <=> (r.Score < 5500)

\* a timing score of 79.99, one hundredth below the "valid" threshold
C12_Witness ==
    /\ ucall.fn = "behavioral_score"
    /\ ucall.provider = "unknown"
    /\ ucall.out.Score = 7999
    /\ ucall.out.Status = "risky"

\* C13: for the providers microsoft365, proofpoint, mimecast and barracuda
\* the real address's reply code alone decides, whatever the timings: a code
\* in {250, 450, 451, 452} gives Score 99, Pattern "smtp_<code>_valid" and
\* Status "valid"; 550 gives Score 10, Pattern "smtp_550_invalid" and Status
\* "invalid"; any other code keeps the timing score (the score of the same
\* call without a provider) and sets Pattern "smtp_<code>_unclear"
C13_EspCodeDecides ==
    (ucall.fn = "behavioral_score"
     /\ ucall.provider \in {"microsoft365", "proofpoint", "mimecast", "barracuda"}) =>
       LET r == ucall.out
           code == ucall.real_code
           timing == behavioral_score(ucall.fake1_t, ucall.fake2_t, ucall.real_t,
                                      ucall.confidence, ucall.entropy, "unknown",
                                      code)
       IN /\ code \in {250, 450, 451, 452} =>
                /\ r.Score = 9900 /\ r.Status = "valid" /\ r.Deliverable = TRUE
                /\ r.Pattern = CASE code = 250 -> "smtp_250_valid"
                                 [] code = 450 -> "smtp_450_valid"
                                 [] code = 451 -> "smtp_451_valid"
                                 [] code = 452 -> "smtp_452_valid"
          /\ code = 550 =>
                /\ r.Score = 1000 /\ r.Status = "invalid" /\ r.Deliverable = FALSE
                /\ r.Pattern = "smtp_550_invalid"
          /\ code \notin {250, 450, 451, 452, 550} =>
                /\ r.Score = timing.Score /\ r.Status = timing.Status
                /\ r.Pattern = CASE code = None -> "smtp_None_unclear"
                                 [] code = 421 -> "smtp_421_unclear"

\* the spec's example shape: a barracuda host answers 451 although the
\* timings alone (flat, low confidence) would score below 55
C13_Witness ==
    /\ ucall.fn = "behavioral_score"
    /\ ucall.provider = "barracuda"
    /\ ucall.real_code = 451
    /\ ucall.fake1_t = 20 /\ ucall.fake2_t = 20 /\ ucall.real_t = 20
    /\ ucall.confidence = 0
    /\ ucall.out.Score = 9900
    /\ ucall.out.Pattern = "smtp_451_valid"

\* C14: every sequence smtp_multi_probe returns is either the single
\* sentinel ("__connect__", absent, absent), or 2 or 3 records in the order
\* decoy#1, real, decoy#2, one per RCPT of the session in that order; also
\* when HELO, MAIL FROM or an RCPT raises: the failing probe has an absent
\* code and a recorded time, and the later probes are still there
C14_ProbeSequenceShape ==
    ucall.fn = "smtp_multi_probe" =>
       LET out == ucall.out
           s == ucall.session
       IN IF ~s.connect
          THEN out = <<[addr |-> "__connect__", code |-> None, time |-> None]>>
          ELSE /\ Len(out) \in {2, 3}
               /\ \A i \in DOMAIN out :
                     /\ out[i].addr = <<"fake1", "real", "fake2">>[i]
                     /\ out[i].code = s.rcpt[i].code
                     /\ out[i].time = s.rcpt[i].time
                     /\ out[i].time /= None

\* HELO and MAIL FROM raised, so did the first RCPT, and the real address
\* and decoy#2 were still probed
C14_Witness ==
    /\ ucall.fn = "smtp_multi_probe"
    /\ ucall.session.connect /\ ~ucall.session.helo /\ ~ucall.session.mail
    /\ ucall.session.rcpt[1].code = None
    /\ Len(ucall.out) = 3
    /\ ucall.out[1] = [addr |-> "fake1", code |-> None, time |-> 80]
    /\ ucall.out[2].code = 250
    /\ ucall.out[3].addr = "fake2"

\* C15: in an established session smtp_multi_probe omits decoy#2 if and
\* only if adaptive is set, the real address's code is in {250, 450, 451,
\* 452} and |real_time - decoy1_time| > 60 ms; in every other case (absent
\* real code, gap of exactly 60 ms, adaptive off) decoy#2 is probed and
\* recorded
C15_AdaptiveSkipExactly ==
    (ucall.fn = "smtp_multi_probe" /\ ucall.session.connect) =>
       LET out == ucall.out
           t1 == ucall.session.rcpt[1].time
           t2 == ucall.session.rcpt[2].time
           code2 == ucall.session.rcpt[2].code
           gap == IF t2 >= t1 THEN t2 - t1 ELSE t1 - t2
           skip == /\ ucall.adaptive
                   /\ code2 \in {250, 450, 451, 452}
                   /\ gap > 60
       IN /\ skip <=> (Len(out) = 2)
          /\ ~skip => (Len(out) = 3 /\ out[3].addr = "fake2"
                       /\ out[3].time = ucall.session.rcpt[3].time)

\* adaptive, real code 250 and a gap of exactly 60 ms: decoy#2 is probed
C15_Witness ==
    /\ ucall.fn = "smtp_multi_probe"
    /\ ucall.session.connect
    /\ ucall.adaptive
    /\ ucall.session.rcpt[1].time = 20
    /\ ucall.session.rcpt[2] = [code |-> 250, time |-> 80]
    /\ Len(ucall.out) = 3

\* the adaptive skip fired for the probes lifted into the record r
SkipFired(r) ==
    /\ r.Real_Code \in {250, 450, 451, 452}
    /\ r.Fake1_Time /= None /\ r.Real_Time /= None
    /\ (r.Real_Time - r.Fake1_Time > 60 \/ r.Fake1_Time - r.Real_Time > 60)

\* C16 as stated: in every verify_email result with Reason
\* "pattern_analysis", absent Fake2 fields imply that the adaptive skip fired
\* (Real_Code in {250, 450, 451, 452} and |Real_Time - Fake1_Time| > 60)
C16_Fake2AbsentImpliesSkip ==
    \A w \in Workers :
       LET r == wk[w].result
       IN (r.Reason = "pattern_analysis" /\ r.Fake2_Code = None /\ r.Fake2_Time = None)
             => SkipFired(r)

\* C16 amended: in every verify_email result with Reason "pattern_analysis",
\* absent Fake2 fields imply either that the session was never established
\* (the probe returned the sentinel, so all six probe fields are absent) or
\* that the adaptive skip fired
C16_Fake2AbsentSkipOrNoSession ==
    \A w \in Workers :
       LET r == wk[w].result
       IN (r.Reason = "pattern_analysis" /\ r.Fake2_Code = None /\ r.Fake2_Time = None)
             => \/ SkipFired(r)
                \/ /\ wk[w].seq = Sentinel
                   /\ r.Fake1_Code = None /\ r.Fake1_Time = None
                   /\ r.Real_Code = None /\ r.Real_Time = None

\* a probed result without decoy#2: the real address answered 250 after
\* 200 ms, decoy#1 after 20 ms
C16_Witness ==
    /\ wk[1].pc = "done"
    /\ wk[1].result.Reason = "pattern_analysis"
    /\ wk[1].result.Fake2_Code = None /\ wk[1].result.Fake2_Time = None
    /\ wk[1].result.Real_Code = 250 /\ wk[1].result.Real_Time = 200
    /\ wk[1].result.Fake1_Time = 20
    /\ Len(wk[1].seq) = 2

\* the entry e is in the store and its age does not exceed the TTL
Fresh(e) == e.present /\ now - e.ts <= MX_CACHE_TTL

\* C17: once a successful lookup for a domain is stored, a later resolve_mx
\* call for that domain within the TTL issues no DNS query (and returns the
\* stored list), for every stored list, the empty one included: no call is
\* at its DNS query while the store holds a fresh entry for its domain
C17_FreshEntryServedWithoutDns ==
    \A w \in Workers :
       (wk[w].fn = "resolve_mx" /\ wk[w].pc = "dns") =>
          ~Fresh(store[wk[w].domain])

\* C18: cache entries are keyed by the lowercase domain: a verify_email call
\* whose domain differs only in letter case from one with a fresh, non-empty
\* entry issues no DNS query
C18_KeyedByLowercaseDomain ==
    \A w \in Workers :
       (wk[w].fn = "verify_email" /\ wk[w].pc = "dns") =>
          ~\E d \in CacheDomains :
              /\ Lower(d) = Lower(wk[w].domain)
              /\ Fresh(store[d])
              /\ store[d].records /= <<>>

\* the complete lists a DNS lookup for the domain can return, as resolve_mx
\* hands them on (root dots stripped)
LookupLists(domain) ==
    {[i \in DOMAIN a.exchanges |-> RStripDot(a.exchanges[i])] :
        a \in {b \in RaceDnsAnswers(domain) : b.ok}}

\* C19: under every interleaving of concurrent resolve_mx calls (same or
\* different domains; cold, fresh or expired entries) each call either
\* raises the DNS failure or returns a complete list that a DNS lookup
\* returned for that same domain, and the cache entry of a domain always
\* holds such a list
C19_ConcurrentResolveReturnsLookup ==
    /\ \A w \in RaceThreads :
          /\ wk[w].pc = "done" => wk[w].mx \in LookupLists(wk[w].domain)
          /\ wk[w].pc = "raised" => (wk[w].exc = "Timeout" /\ wk[w].mx = <<>>)
          /\ wk[w].pc = "set" => wk[w].answer \in LookupLists(wk[w].domain)
    /\ \A d \in CacheDomains :
          store[d].present => store[d].records \in LookupLists(d)

\* two threads hold different fresh lookups of the same domain at once, one
\* of them after evicting an expired entry
C19_Witness ==
    /\ wk[1].pc = "set" /\ wk[2].pc = "set"
    /\ wk[1].domain = wk[2].domain
    /\ wk[1].answer /= wk[2].answer
    /\ wk[1].expired
    /\ ~store[wk[1].domain].present

\* C20: only expired entries are evicted: under every interleaving of
\* concurrent MXCache.get and MXCache.set calls no step removes an entry
\* whose age does not exceed the TTL
C20_FreshEntryNeverEvicted ==
    [][\A d \in CacheDomains : Fresh(store[d]) => store'[d].present]_vars

(***************************************************************************)
(* Specifications                                                          *)
(***************************************************************************)
Init == FInit /\ VInit /\ BInit /\ UInit

\* POST /find requests, with the verifier as the environment
SpecFind == Init /\ [][FNext]_vars

\* one thread calling verify_email repeatedly while the clock advances
SpecVerify == Init /\ [][VNext]_vars

\* one thread calling resolve_mx repeatedly while the clock advances
SpecCache == Init /\ [][CNext]_vars

\* one verify_bulk_emails batch
SpecBulk == Init /\ [][BNext]_vars

\* one thread calling verify_email on x.co and X.CO addresses
SpecCase == Init /\ [][CaseNext]_vars

\* pool threads calling resolve_mx concurrently
SpecRace == Init /\ [][RaceNext]_vars

\* direct calls of the pure functions, over bounded arguments
SpecUnit == Init /\ [][UNext]_vars

\* a process that serves either single verify_email calls or one batch
Next == VNext \/ BNext
Spec == Init /\ [][Next]_vars

====
